---- MODULE Spec2Model ----
(***************************************************************************)
(* Model of the 90s Weather Channel video generator:                       *)
(*   src/weather_api.py      forecast / nearby-conditions provider         *)
(*   src/video_renderer.py   frame composer and encoder adapter            *)
(*   src/generate_weather.py top-level run over the configured cities      *)
(*                                                                         *)
(* Images are modelled by the list of things drawn on them (cards, map     *)
(* entries with position and colour); PNG files in the temporary           *)
(* directory are modelled by their names, the edit list by its entries.    *)
(* Temperatures coming from the HTTP API are in tenths of a degree so that *)
(* Python's round() is modelled as what it does.                           *)
(***************************************************************************)
EXTENDS Integers, Sequences, FiniteSets, TLC

(***************************************************************************)
(* Bounds of the model (not program constants).                            *)
(***************************************************************************)
\* number of distinct calendar days an API response may span
MaxApiDays == 4
\* number of days a Forecast handed directly to the renderer may hold
MaxDays == 4
\* length of a nearby list handed directly to the renderer
MaxNearby == 3
\* largest frame index handed directly to generate_map_frame
MaxFrameNum == 8

(***************************************************************************)
(* weather_api.py : configuration tables                                   *)
(***************************************************************************)
CityKeys == <<"austin", "london">>

CITIES ==
  [austin |-> [name |-> "Austin", region |-> "Metro", units |-> "imperial",
               nearby |-> <<"Houston", "Dallas", "San Antonio", "El Paso">>],
   london |-> [name |-> "London", region |-> "Metro", units |-> "metric",
               nearby |-> <<"Paris", "Berlin", "Amsterdam", "Brussels">>]]

CONDITION_ICONS ==
  [Clear |-> "sun", Clouds |-> "clouds", Rain |-> "rain", Drizzle |-> "rain",
   Thunderstorm |-> "thunderstorm", Snow |-> "snow", Mist |-> "clouds",
   Fog |-> "clouds", Haze |-> "clouds"]

IconKinds == {"sun", "clouds", "rain", "thunderstorm", "snow"}

\* mutant: an unmapped condition is passed through, as get_description does
get_icon_name_passthrough(condition) ==
  IF condition \in DOMAIN CONDITION_ICONS THEN CONDITION_ICONS[condition]
  ELSE condition

get_icon_name(condition) ==
  IF condition \in DOMAIN CONDITION_ICONS THEN CONDITION_ICONS[condition]
  ELSE "clouds"

descriptions ==
  [Clear |-> "Sunny", Clouds |-> "Cloudy", Rain |-> "Rainy",
   Drizzle |-> "Light Rain", Thunderstorm |-> "T'storms", Snow |-> "Snow",
   Mist |-> "Misty", Fog |-> "Foggy", Haze |-> "Hazy"]

get_description(condition) ==
  IF condition \in DOMAIN descriptions THEN descriptions[condition]
  ELSE condition

\* the degree sign of the source is written "deg"
unit_symbol(city) == IF city.units = "imperial" THEN "degF" ELSE "degC"

(***************************************************************************)
(* Python built-ins used by the provider.                                  *)
(***************************************************************************)
\* round(x) of a float given in tenths: nearest integer, ties to even
PyRound(t10) ==
  LET q == t10 \div 10
      r == t10 % 10
  IN  IF r < 5 THEN q
      ELSE IF r > 5 THEN q + 1
      ELSE IF q % 2 = 0 THEN q ELSE q + 1

\* strftime("%a").upper() of a weekday number, Monday = 0
DayNames == <<"MON", "TUE", "WED", "THU", "FRI", "SAT", "SUN">>
day_name(wd) == DayNames[(wd % 7) + 1]

SetMax(S) == CHOOSE m \in S : \A x \in S : x <= m
SetMin(S) == CHOOSE m \in S : \A x \in S : m <= x

\* sorted(S) of a finite set of integers
RECURSIVE SortedSeq(_)
SortedSeq(S) ==
  IF S = {} THEN <<>>
  ELSE LET m == SetMin(S) IN <<m>> \o SortedSeq(S \ {m})

\* seq[:n]
Take(seq, n) == SubSeq(seq, 1, IF Len(seq) < n THEN Len(seq) ELSE n)

\* the subsequence of 1..n whose members are in S, ascending
RECURSIVE PlacesUpTo(_, _)
PlacesUpTo(S, n) ==
  IF n = 0 THEN <<>>
  ELSE PlacesUpTo(S, n - 1) \o (IF n \in S THEN <<n>> ELSE <<>>)

(***************************************************************************)
(* The outside world of the provider: the clock, the HTTP API, the cache.  *)
(***************************************************************************)
\* datetime.now(): day of month, length of that month, weekday (Monday = 0)
Dates ==
  {[day |-> d, mlen |-> m, wd |-> d % 7] : d \in {29, 30}, m \in {30, 31}}

NoDate == [day |-> 0, mlen |-> 0, wd |-> 0]

\* one 3-hour item of the forecast API: item["dt"] as a day number (its
\* weekday is dt % 7), item["main"]["temp"] in tenths, item["weather"][0]["main"]
ApiItem(dt, temp10, main) == [dt |-> dt, temp10 |-> temp10, main |-> main]

\* a response list spanning n consecutive days, two items a day, the
\* conditions c1 and c2 alternating, plus a third item on the first day
ApiList(n, c1, c2) ==
  LET day(k) == <<ApiItem(100 + k, 725 + 10 * k, c1),
                  ApiItem(100 + k, 618 - 7 * k, c2)>>
      RECURSIVE upto(_)
      upto(k) == IF k = 0 THEN <<>> ELSE upto(k - 1) \o day(k)
  IN  IF n = 0 THEN <<>> ELSE <<ApiItem(101, 655, c1)>> \o upto(n)

\* the conditions c1, c2 of the sample responses
SampleConditions == {<<"Rain", "Rain">>, <<"Tornado", "Clear">>}

\* what requests.get(...).json() can yield: an exception (timeout, HTTP
\* error status, invalid JSON), a body whose items lack a key, or a body
ForecastResponses ==
  {[status |-> "error", list |-> <<>>], [status |-> "malformed", list |-> <<>>]}
  \cup {[status |-> "ok", list |-> ApiList(n, c[1], c[2])] :
          n \in {0, 1, MaxApiDays - 1, MaxApiDays}, c \in SampleConditions}

\* the responses used by the top-level run
MainForecastResponses ==
  {[status |-> "error", list |-> <<>>],
   [status |-> "ok", list |-> ApiList(1, "Rain", "Rain")],
   [status |-> "ok", list |-> ApiList(MaxApiDays, "Tornado", "Clear")]}

MainDates == {[day |-> 29, mlen |-> 31, wd |-> 1], [day |-> 30, mlen |-> 30, wd |-> 2]}

\* one current-weather lookup: failed, or data["main"]["temp"] (tenths) and
\* data["weather"][0]["main"]
LookupFailed == [ok |-> FALSE, temp10 |-> 0, main |-> ""]
LookupOutcomes ==
  {LookupFailed} \cup
  {[ok |-> TRUE, temp10 |-> 685, main |-> c] : c \in {"Clear", "Tornado"}}
\* the lookup outcomes used by the top-level run: all fail, all succeed, or
\* the second one fails
LookupOk == [ok |-> TRUE, temp10 |-> 685, main |-> "Rain"]
MainLookups(n) ==
  {[j \in 1..n |-> LookupFailed], [j \in 1..n |-> LookupOk],
   [j \in 1..n |-> IF j = 2 THEN LookupFailed ELSE LookupOk]}

(***************************************************************************)
(* weather_api.py : process_forecast                                       *)
(***************************************************************************)
DayKeys(list) == {list[j].dt : j \in 1..Len(list)}
DayTemps(list, k) == {list[j].temp10 : j \in {j \in 1..Len(list) : list[j].dt = k}}
DayConditions(list, k) == {list[j].main : j \in {j \in 1..Len(list) : list[j].dt = k}}
CondCount(list, k, c) ==
  Cardinality({j \in 1..Len(list) : list[j].dt = k /\ list[j].main = c})

\* max(set(conditions), key=conditions.count): a most frequent condition of
\* the day; among equally frequent ones the set's iteration order decides,
\* which the string hash seed of the run fixes
MostCommon(list, k) ==
  {c \in DayConditions(list, k) :
     \A d \in DayConditions(list, k) : CondCount(list, k, d) <= CondCount(list, k, c)}

DayEntry(list, k, condition) ==
  [day_name |-> day_name(k),
   high |-> PyRound(SetMax(DayTemps(list, k))),
   low |-> PyRound(SetMin(DayTemps(list, k))),
   condition |-> condition,
   icon |-> get_icon_name(condition),
   description |-> get_description(condition)]

MakeForecast(city, now, days) ==
  [city |-> city.name, region |-> city.region, units |-> city.units,
   unit_symbol |-> unit_symbol(city), timestamp |-> "isoformat",
   forecasts |-> days]

\* the set of forecasts process_forecast can return for a response list
process_forecast(list, city, now) ==
  LET keys == Take(SortedSeq(DayKeys(list)), 3)
      picks == {ch \in [1..Len(keys) -> UNION {DayConditions(list, k) : k \in DayKeys(list)}] :
                  \A i \in 1..Len(keys) : ch[i] \in MostCommon(list, keys[i])}
  IN  IF keys = <<>> THEN {MakeForecast(city, now, <<>>)}
      ELSE {MakeForecast(city, now,
                         [i \in 1..Len(keys) |-> DayEntry(list, keys[i], ch[i])]) :
              ch \in picks}

(***************************************************************************)
(* weather_api.py : get_fallback_forecast                                  *)
(***************************************************************************)
\* now.replace(day=now.day + i) raises ValueError past the end of the month
ReplaceDayRaises(now, i) == now.day + i > now.mlen

FallbackDay(city, now, i) ==
  [day_name |-> day_name(now.wd + i),
   high |-> IF city.units = "imperial" THEN 75 ELSE 24,
   low |-> IF city.units = "imperial" THEN 55 ELSE 13,
   condition |-> "Clouds", icon |-> "clouds", description |-> "Cloudy"]

get_fallback_raises(now) == \E i \in 0..2 : ReplaceDayRaises(now, i)

get_fallback_forecast(city, now) ==
  MakeForecast(city, now, [i \in 1..3 |-> FallbackDay(city, now, i - 1)])

(***************************************************************************)
(* weather_api.py : fetch_forecast                                         *)
(***************************************************************************)
NoForecast == [city |-> "", region |-> "", units |-> "", unit_symbol |-> "",
               timestamp |-> "", forecasts |-> <<>>]

CacheAbsent == [state |-> "absent", data |-> NoForecast]
CacheCorrupt == [state |-> "corrupt", data |-> NoForecast]
CacheValid(f) == [state |-> "valid", data |-> f]

Returned(v, file) == [raised |-> FALSE, exc |-> "", value |-> v, file |-> file]
Raised(e, file) == [raised |-> TRUE, exc |-> e, value |-> NoForecast, file |-> file]

\* the except branch: cached data if the cache file exists, else the fallback
fetch_forecast_except(city, now, file) ==
  IF file.state = "valid" THEN Returned(file.data, file)
  ELSE IF file.state = "corrupt" THEN Raised("JSONDecodeError", file)
  ELSE IF get_fallback_raises(now) THEN Raised("ValueError", file)
  ELSE Returned(get_fallback_forecast(city, now), file)

\* the outcomes of fetch_forecast(city_key): what it returns or raises and
\* the cache file it leaves; file is the cache file of that city before
fetch_forecast(city_key, resp, now, file) ==
  LET city == CITIES[city_key] IN
  IF resp.status = "ok"
  THEN {Returned(f, CacheValid(f)) : f \in process_forecast(resp.list, city, now)}
  ELSE {fetch_forecast_except(city, now, file)}

(***************************************************************************)
(* weather_api.py : fetch_nearby_weather                                   *)
(***************************************************************************)
\* the entry appended for one configured nearby city (lat and lon, which
\* nothing reads, are left out)
NearbyEntry(city, name, lookup) ==
  IF lookup.ok
  THEN [name |-> name, temp |-> PyRound(lookup.temp10),
        condition |-> lookup.main, icon |-> get_icon_name(lookup.main)]
  ELSE [name |-> name, temp |-> IF city.units = "imperial" THEN 70 ELSE 21,
        condition |-> "Clouds", icon |-> "clouds"]

\* mutant: a failed lookup appends nothing
fetch_nearby_weather_skip(city_key, lookups) ==
  LET city == CITIES[city_key]
      kept == PlacesUpTo({j \in 1..Len(city.nearby) : lookups[j].ok}, Len(city.nearby))
  IN  [k \in 1..Len(kept) |-> NearbyEntry(city, city.nearby[kept[k]], lookups[kept[k]])]

fetch_nearby_weather(city_key, lookups) ==
  LET city == CITIES[city_key] IN
  [i \in 1..Len(city.nearby) |-> NearbyEntry(city, city.nearby[i], lookups[i])]


(***************************************************************************)
(* video_renderer.py : the frame composer                                  *)
(***************************************************************************)
\* generate_forecast_frame: card_start_x, card_spacing, card_y (lines 222-224)
card_start_x == 30
card_spacing == 200
card_y == 70
\* the slice [:3] of line 226
MaxCards == 3

\* what ImageDraw draws: draw.ellipse(box, fill) and draw.line(xy, fill, width)
Ellipse(x1, y1, x2, y2, fill) ==
  [shape |-> "ellipse", xy |-> <<x1, y1, x2, y2>>, fill |-> fill, width |-> 0]
Line(x1, y1, x2, y2, fill, width) ==
  [shape |-> "line", xy |-> <<x1, y1, x2, y2>>, fill |-> fill, width |-> width]

\* int(30 * cos), int(30 * sin), int(40 * cos), int(40 * sin) of the angles
\* range(0, 360, 45) (lines 151-157)
SunRays ==
  <<<<30, 0, 40, 0>>, <<21, 21, 28, 28>>, <<0, 30, 0, 40>>, <<-21, 21, -28, 28>>,
    <<-30, 0, -40, 0>>, <<-21, -21, -28, -28>>, <<0, -30, 0, -40>>,
    <<21, -21, 28, -28>>>>

\* range(-20, 25, 15) of lines 172 and 195
DropOffsets == <<-20, -5, 10>>

\* the three lobes of the cloud of the rain, thunderstorm and snow icons
CloudLobes(cx, cy, dark, light) ==
  <<Ellipse(cx - 30, cy - 25, cx, cy, dark),
    Ellipse(cx - 15, cy - 30, cx + 20, cy - 5, light),
    Ellipse(cx + 5, cy - 25, cx + 35, cy, dark)>>

\* lines 160-164: the branch of "clouds"
DrawClouds(cx, cy) ==
  <<Ellipse(cx - 35, cy - 10, cx - 5, cy + 20, "#9e9e9e"),
    Ellipse(cx - 20, cy - 20, cx + 20, cy + 15, "#bdbdbd"),
    Ellipse(cx, cy - 10, cx + 35, cy + 20, "#9e9e9e")>>

\* draw_weather_icon: the shapes drawn, in drawing order; the if/elif chain
\* of lines 147-197 has no else branch
draw_weather_icon(cx, cy, icon_type) ==
  IF icon_type = "sun"
  THEN <<Ellipse(cx - 25, cy - 25, cx + 25, cy + 25, "#ffd54f")>>
       \o [a \in 1..Len(SunRays) |->
             Line(cx + SunRays[a][1], cy + SunRays[a][2],
                  cx + SunRays[a][3], cy + SunRays[a][4], "#ffd54f", 3)]
  ELSE IF icon_type = "clouds"
  THEN DrawClouds(cx, cy)
  ELSE IF icon_type = "rain"
  THEN CloudLobes(cx, cy, "#9e9e9e", "#bdbdbd")
       \o [d \in 1..Len(DropOffsets) |->
             Line(cx + DropOffsets[d], cy + 10, cx + DropOffsets[d] - 5, cy + 30,
                  "#64b5f6", 2)]
  ELSE IF icon_type = "thunderstorm"
  THEN CloudLobes(cx, cy, "#616161", "#757575")
       \o <<Line(cx, cy + 5, cx - 8, cy + 20, "#ffeb3b", 3),
            Line(cx - 8, cy + 20, cx, cy + 18, "#ffeb3b", 3),
            Line(cx, cy + 18, cx - 5, cy + 35, "#ffeb3b", 3),
            Line(cx - 15, cy + 10, cx - 18, cy + 25, "#64b5f6", 2),
            Line(cx + 15, cy + 10, cx + 12, cy + 25, "#64b5f6", 2)>>
  ELSE IF icon_type = "snow"
  THEN CloudLobes(cx, cy, "#bdbdbd", "#e0e0e0")
       \o [d \in 1..(2 * Len(DropOffsets)) |->
             LET o == DropOffsets[(d + 1) \div 2] IN
             IF d % 2 = 1
             THEN Ellipse(cx + o - 3, cy + 15, cx + o + 3, cy + 21, "#ffffff")
             ELSE Ellipse(cx + o - 3, cy + 28, cx + o + 3, cy + 34, "#ffffff")]
  ELSE <<>>

\* the image of a draw_weather_icon call on an empty surface
IconImage(cx, cy, icon_type) ==
  [kind |-> "icon", header |-> <<>>, cards |-> <<>>,
   drawn |-> draw_weather_icon(cx, cy, icon_type), bar |-> ""]

\* the icon kinds and centre points of direct calls of draw_weather_icon:
\* the five kinds, two strings outside them, the icon centre of the first
\* card (line 126) and a map position
IconInputs == IconKinds \cup {"tornado", "Clouds"}
CenterInputs == {<<120, 160>>, <<320, 320>>, <<10, 10>>}
NoIconCall == [cx |-> 0, cy |-> 0, icon_type |-> ""]

\* the condition strings of direct calls of get_icon_name: the keys of the
\* mapping and strings that are not keys of it
ConditionInputs ==
  DOMAIN CONDITION_ICONS \cup {"Tornado", "Smoke", "clear", "RAIN", "sun", ""}
NoIconName == [condition |-> "", result |-> ""]

\* draw_forecast_card as called at lines 227-237: what one card shows and where
draw_forecast_card(x, y, day, unit) ==
  [x |-> x, y |-> y, day_name |-> day.day_name, icon |-> day.icon,
   description |-> day.description, high |-> day.high, low |-> day.low,
   unit |-> unit]

\* mutant: the loop without the slice
CardDays_all(forecast) == forecast.forecasts

\* the days the loop of line 226 iterates over
CardDays(forecast) == Take(forecast.forecasts, MaxCards)

\* (timestamp: the text of datetime.now().isoformat() is not modelled)
\* the image: header, the cards in drawing order, bottom bar
generate_forecast_frame(forecast) ==
  LET days == CardDays(forecast) IN
  [kind |-> "forecast",
   header |-> <<forecast.city, forecast.region>>,
   cards |-> [i \in 1..Len(days) |->
                draw_forecast_card(card_start_x + (i - 1) * card_spacing, card_y,
                                   days[i], forecast.unit_symbol)],
   drawn |-> <<>>,
   bar |-> "BAROMETRIC PRESSURE: 30.03 IN."]

\* the static position tables of generate_map_frame (lines 261-267, 274-280)
UsPositions ==
  [n \in {"Austin", "Houston", "Dallas", "San Antonio", "El Paso"} |->
     CASE n = "Austin" -> <<280, 300>>
       [] n = "Houston" -> <<320, 320>>
       [] n = "Dallas" -> <<290, 250>>
       [] n = "San Antonio" -> <<260, 320>>
       [] n = "El Paso" -> <<150, 290>>]

EuropePositions ==
  [n \in {"London", "Paris", "Berlin", "Amsterdam", "Brussels"} |->
     CASE n = "London" -> <<200, 180>>
       [] n = "Paris" -> <<220, 240>>
       [] n = "Berlin" -> <<350, 200>>
       [] n = "Amsterdam" -> <<250, 170>>
       [] n = "Brussels" -> <<240, 210>>]

positions(city_key) == IF city_key = "austin" THEN UsPositions ELSE EuropePositions

\* line 287
highlight_idx(nearby, frame_num) == frame_num % (Len(nearby) + 1)

\* mutant: the comparison without the "- 1"
is_highlighted_off(i, nearby, frame_num) == i = highlight_idx(nearby, frame_num)

\* line 298, for the entry at 0-based index i
is_highlighted(i, nearby, frame_num) == i = highlight_idx(nearby, frame_num) - 1

\* mutant: an unknown name ends the loop instead of being passed over
DrawnPlaces_break(city_key, nearby) ==
  {j \in 1..Len(nearby) :
     \A k \in 1..j : nearby[k].name \in DOMAIN positions(city_key)}

\* line 291: the entries (1-based places in nearby) that get drawn at all
DrawnPlaces(city_key, nearby) ==
  {j \in 1..Len(nearby) : nearby[j].name \in DOMAIN positions(city_key)}

\* lines 292-303 for the entry at place j: icon at the table position, name
\* and temperature in the highlight colour or in white; idx is its 0-based
\* index in nearby
draw_map_entry(city_key, nearby, frame_num, j) ==
  LET pos == positions(city_key)[nearby[j].name] IN
  [idx |-> j - 1, name |-> nearby[j].name, x |-> pos[1], y |-> pos[2],
   icon |-> nearby[j].icon, temp |-> nearby[j].temp,
   color |-> IF is_highlighted(j - 1, nearby, frame_num)
             THEN "text_yellow" ELSE "text_white"]

generate_map_frame(city_key, nearby, frame_num) ==
  LET places == PlacesUpTo(DrawnPlaces(city_key, nearby), Len(nearby)) IN
  [kind |-> "map",
   header |-> <<IF city_key = "austin" THEN "UNITED STATES" ELSE "WESTERN EUROPE">>,
   cards |-> <<>>,
   drawn |-> [k \in 1..Len(places) |->
                draw_map_entry(city_key, nearby, frame_num, places[k])],
   bar |-> "REGIONAL CONDITIONS"]

NoImage == [kind |-> "none", header |-> <<>>, cards |-> <<>>, drawn |-> <<>>,
            bar |-> ""]


(***************************************************************************)
(* Inputs of direct calls of the renderer.                                 *)
(***************************************************************************)
SampleDays ==
  <<[day_name |-> "THU", high |-> 84, low |-> 61, condition |-> "Thunderstorm",
     icon |-> "thunderstorm", description |-> "T'storms"],
    [day_name |-> "FRI", high |-> 80, low |-> 64, condition |-> "Clear",
     icon |-> "sun", description |-> "Sunny"],
    [day_name |-> "SAT", high |-> 78, low |-> 60, condition |-> "Rain",
     icon |-> "rain", description |-> "Rainy"],
    [day_name |-> "SUN", high |-> 71, low |-> 58, condition |-> "Snow",
     icon |-> "snow", description |-> "Snow"],
    [day_name |-> "MON", high |-> 69, low |-> 50, condition |-> "Clouds",
     icon |-> "clouds", description |-> "Cloudy"]>>

\* day k of a forecast of any length (the samples repeat after the fifth)
SampleDay(k) == SampleDays[((k - 1) % Len(SampleDays)) + 1]

\* the test forecast of video_renderer.py (lines 379-388) with K days
TestForecast(K) ==
  [city |-> "Austin", region |-> "Metro", units |-> "imperial",
   unit_symbol |-> "degF", timestamp |-> "isoformat",
   forecasts |-> [k \in 1..K |-> SampleDay(k)]]

ForecastInputs == {TestForecast(K) : K \in 0..MaxDays}

NearbyNames == {"Houston", "Paris", "Unknown City"}

SampleNearby(name, place) ==
  [name |-> name, temp |-> 60 + place, condition |-> "Clear", icon |-> "sun"]

NearbyInputs ==
  UNION {{[j \in 1..n |-> SampleNearby(names[j], j)] : names \in [1..n -> NearbyNames]} :
           n \in 0..MaxNearby}

\* the inputs of direct calls of generate_video
VideoForecastInputs == {TestForecast(1), TestForecast(MaxDays)}
VideoNearbyInputs ==
  {<<>>,
   <<SampleNearby("Unknown City", 1), SampleNearby("Houston", 2)>>,
   fetch_nearby_weather("london", [j \in 1..4 |-> LookupFailed])}

(***************************************************************************)
(* video_renderer.py : generate_video, its files and the encoder           *)
(***************************************************************************)
\* range(10) of line 327
MapFrameCount == 10
\* "duration 10" of line 342 and "duration 1" of line 346
ForecastDuration == 10
MapFrameDuration == 1

\* f"map_{i:03d}.png" for i in range(10)
MapNames == <<"map_000.png", "map_001.png", "map_002.png", "map_003.png",
              "map_004.png", "map_005.png", "map_006.png", "map_007.png",
              "map_008.png", "map_009.png">>
MapName(n) == MapNames[n + 1]

output_name(city_key) == IF city_key = "austin" THEN "ATXweather.mp4" ELSE "LDNweather.mp4"
\* OUTPUT_DIR / f"temp_{city_key}"
temp_dir(city_key) == IF city_key = "austin" THEN "temp_austin" ELSE "temp_london"

FileLine(dir, name) == [kw |-> "file", path |-> <<dir, name>>, secs |-> 0]
DurationLine(secs) == [kw |-> "duration", path |-> <<>>, secs |-> secs]

RECURSIVE MapLines(_, _, _)
MapLines(dir, frames, n) ==
  IF n = 0 THEN <<>>
  ELSE MapLines(dir, frames, n - 1)
       \o <<FileLine(dir, frames[n]), DurationLine(MapFrameDuration)>>

\* mutant: the last frame is not listed again
ConcatLines_norepeat(dir, frames) ==
  <<FileLine(dir, "forecast.png"), DurationLine(ForecastDuration)>>
  \o MapLines(dir, frames, Len(frames))

\* the lines written to concat.txt (lines 339-348)
ConcatLines(dir, frames) ==
  <<FileLine(dir, "forecast.png"), DurationLine(ForecastDuration)>>
  \o MapLines(dir, frames, Len(frames))
  \o <<FileLine(dir, frames[Len(frames)])>>

\* subprocess.run of ffmpeg: it exits 0, exits non-zero with text on stderr,
\* or cannot be started at all
NoProcess == [started |-> FALSE, returncode |-> 0, stderr |-> ""]
EncoderOutcomes ==
  {[started |-> TRUE, returncode |-> 0, stderr |-> ""], NoProcess}
  \cup {[started |-> TRUE, returncode |-> 1, stderr |-> t] :
          t \in {"Unknown encoder 'libx264'", "No space left on device"}}

NoExc == [type |-> "", returncode |-> 0, stderr |-> ""]
OSError == [type |-> "OSError", returncode |-> 0, stderr |-> ""]

\* mutant: subprocess.run without check=True raises for no exit status
encoder_exception_unchecked(p) ==
  IF ~p.started THEN [type |-> "FileNotFoundError", returncode |-> 0, stderr |-> ""]
  ELSE [type |-> "", returncode |-> 0, stderr |-> ""]

\* lines 363-368: what subprocess.run(..., capture_output=True, check=True)
\* raises for a finished or unstartable process (NoExc: nothing)
encoder_exception(p) ==
  IF ~p.started THEN [type |-> "FileNotFoundError", returncode |-> 0, stderr |-> ""]
  ELSE IF p.returncode # 0
  THEN [type |-> "CalledProcessError", returncode |-> p.returncode, stderr |-> p.stderr]
  ELSE NoExc


(***************************************************************************)
(* State                                                                   *)
(***************************************************************************)
VARIABLES
  mode,        \* who runs: "main" (generate_weather.py) or a direct caller
  pc,          \* position of the running code
  ci,          \* generate_all_videos: 1-based place in cities of the loop
  processed,   \* generate_all_videos: the "--- Processing" lines printed so far
  generated,   \* generate_all_videos: the list generated
  exit_code,   \* the process exit status, -1 while running
  city_key,    \* the city key of the current call
  forecast,    \* the forecast held by the caller / passed to the renderer
  nearby,      \* the nearby list held by the caller / passed to the renderer
  cache,       \* cache/<city_key>_forecast.json for each city key
  http,        \* what the HTTP API answered during the fetch made last
  clock,       \* what datetime.now() was during the forecast fetch made last
  temp_exists, \* whether output/temp_<city_key> exists, for each city key
  temp_files,  \* the names of the files in output/temp_<city_key>
  concat,      \* the lines of output/temp_<city_key>/concat.txt
  i,           \* generate_video: the loop variable; direct call: frame_num
  map_frames,  \* generate_video: the list map_frames
  img,         \* the image composed last
  icon,        \* the arguments of the draw_weather_icon call made last
  icon_name,   \* the argument and the result of the get_icon_name call made last
  proc,        \* the encoder process run last
  last         \* the call completed last: function, raised or returned

vars == <<mode, pc, ci, processed, generated, exit_code, city_key, forecast, nearby,
          cache, http, clock, temp_exists, temp_files, concat, i, map_frames, img, icon,
          icon_name, proc, last>>

main_vars == <<ci, processed, generated, exit_code>>
fs_vars == <<temp_exists, temp_files, concat>>
gv_locals == <<i, map_frames, img, proc>>

CitySet == {CityKeys[k] : k \in 1..Len(CityKeys)}

NoCall == [fn |-> "", raised |-> FALSE, exc |-> NoExc, path |-> ""]
CallReturned(fn, path) == [fn |-> fn, raised |-> FALSE, exc |-> NoExc, path |-> path]
CallRaised(fn, exc) == [fn |-> fn, raised |-> TRUE, exc |-> exc, path |-> ""]
Exc(type) == [type |-> type, returncode |-> 0, stderr |-> ""]

InitCommon ==
  /\ ci = 1
  /\ processed = <<>>
  /\ generated = <<>>
  /\ exit_code = -1
  /\ city_key = ""
  /\ forecast = NoForecast
  /\ nearby = <<>>
  /\ http = <<>>
  /\ clock = NoDate
  /\ temp_exists = [k \in CitySet |-> FALSE]
  /\ temp_files = [k \in CitySet |-> {}]
  /\ concat = [k \in CitySet |-> <<>>]
  /\ i = 0
  /\ map_frames = <<>>
  /\ img = NoImage
  /\ icon = NoIconCall
  /\ icon_name = NoIconName
  /\ proc = NoProcess
  /\ last = NoCall

\* a cache file left by an earlier run of the program
OldCache(k) == CacheValid(get_fallback_forecast(CITIES[k], [day |-> 1, mlen |-> 31, wd |-> 0]))
InitCaches ==
  {c \in [CitySet -> {"absent", "corrupt", "valid"}] : TRUE}
CacheOf(k, st) ==
  IF st = "absent" THEN CacheAbsent
  ELSE IF st = "corrupt" THEN CacheCorrupt ELSE OldCache(k)

\* generate_weather.py run as a script
Init ==
  /\ mode = "main"
  /\ pc = "loop"
  /\ \E c \in InitCaches : cache = [k \in CitySet |-> CacheOf(k, c[k])]
  /\ InitCommon

\* weather_api.py called directly
InitApi ==
  /\ mode = "api"
  /\ pc = "idle"
  /\ \E c \in InitCaches : cache = [k \in CitySet |-> CacheOf(k, c[k])]
  /\ InitCommon

\* direct calls of the functions that keep nothing between calls
InitCalls ==
  /\ mode = "calls"
  /\ pc = "idle"
  /\ cache = [k \in CitySet |-> CacheAbsent]
  /\ InitCommon

\* generate_video called directly, any number of times
InitVideo ==
  /\ mode = "video"
  /\ pc = "idle"
  /\ cache = [k \in CitySet |-> CacheAbsent]
  /\ InitCommon

(***************************************************************************)
(* generate_weather.py : generate_all_videos                               *)
(***************************************************************************)
\* mutant: the try statement is around the loop, a failure ends the loop
MainExcept_abort ==
  /\ ci' = Len(CityKeys) + 1
  /\ pc' = "loop"
  /\ UNCHANGED <<processed, generated, exit_code>>

\* lines 50-53: the except clause of the loop body, then the next city
MainExcept ==
  /\ ci' = ci + 1
  /\ pc' = "loop"
  /\ UNCHANGED <<processed, generated, exit_code>>

\* lines 38-40: the next city of the list
MainNextCity ==
  /\ mode = "main" /\ pc = "loop" /\ ci <= Len(CityKeys)
  /\ city_key' = CityKeys[ci]
  /\ processed' = Append(processed, CityKeys[ci])
  /\ pc' = "fetch_forecast"
  /\ UNCHANGED <<mode, icon, icon_name, ci, generated, exit_code, forecast, nearby, cache, http, clock, last>>
  /\ UNCHANGED fs_vars /\ UNCHANGED gv_locals

\* line 43: forecast = fetch_forecast(city_key)
MainFetchForecast ==
  /\ mode = "main" /\ pc = "fetch_forecast"
  /\ \E resp \in MainForecastResponses, now \in MainDates :
       \E out \in fetch_forecast(city_key, resp, now, cache[city_key]) :
         /\ cache' = [cache EXCEPT ![city_key] = out.file]
         /\ http' = <<resp>>
         /\ clock' = now
         /\ IF out.raised
            THEN /\ last' = CallRaised("fetch_forecast", Exc(out.exc))
                 /\ MainExcept
                 /\ UNCHANGED forecast
            ELSE /\ last' = CallReturned("fetch_forecast", "")
                 /\ forecast' = out.value
                 /\ pc' = "fetch_nearby"
                 /\ UNCHANGED main_vars
  /\ UNCHANGED <<mode, icon, icon_name, city_key, nearby>>
  /\ UNCHANGED fs_vars /\ UNCHANGED gv_locals

\* line 44: nearby = fetch_nearby_weather(city_key)
MainFetchNearby ==
  /\ mode = "main" /\ pc = "fetch_nearby"
  /\ \E lookups \in MainLookups(Len(CITIES[city_key].nearby)) :
       /\ nearby' = fetch_nearby_weather(city_key, lookups)
       /\ http' = lookups
       /\ UNCHANGED clock
  /\ last' = CallReturned("fetch_nearby_weather", "")
  /\ pc' = "gv_start"
  /\ UNCHANGED <<mode, icon, icon_name, city_key, forecast, cache>>
  /\ UNCHANGED main_vars /\ UNCHANGED fs_vars /\ UNCHANGED gv_locals

\* lines 47-53: generate_video came back: append its path, or the except clause
MainAfterVideo ==
  /\ mode = "main" /\ pc = "gv_return"
  /\ IF last.raised
     THEN MainExcept
     ELSE /\ generated' = Append(generated, last.path)
          /\ ci' = ci + 1
          /\ pc' = "loop"
          /\ UNCHANGED <<processed, exit_code>>
  /\ UNCHANGED <<mode, icon, icon_name, city_key, forecast, nearby, cache, http, clock, last>>
  /\ UNCHANGED fs_vars /\ UNCHANGED gv_locals

\* mutant: success as soon as one video was generated
all_generated_any(gen) == Len(gen) > 0

\* line 65: the value generate_all_videos returns
all_generated(gen) == Len(gen) = Len(CityKeys)

\* lines 55-70: the loop is over; report and exit
MainFinish ==
  /\ mode = "main" /\ pc = "loop" /\ ci > Len(CityKeys)
  /\ exit_code' = IF all_generated(generated) THEN 0 ELSE 1
  /\ pc' = "exit"
  /\ UNCHANGED <<mode, icon, icon_name, ci, processed, generated, city_key, forecast, nearby, cache, http, clock, last>>
  /\ UNCHANGED fs_vars /\ UNCHANGED gv_locals


(***************************************************************************)
(* video_renderer.py : generate_video, step by step                        *)
(***************************************************************************)
\* an exception leaves generate_video: its locals are gone, the caller sees it
GVRaise(exc) ==
  /\ last' = CallRaised("generate_video", exc)
  /\ pc' = "gv_return"
  /\ i' = 0
  /\ map_frames' = <<>>
  /\ img' = NoImage

\* img.save(path) in the temporary directory: the file is there afterwards
SaveFile(name) ==
  temp_files' = [temp_files EXCEPT ![city_key] = @ \cup {name}]

\* lines 313-318: names and temp_dir.mkdir(exist_ok=True)
GVStart ==
  /\ pc = "gv_start"
  /\ temp_exists' = [temp_exists EXCEPT ![city_key] = TRUE]
  /\ i' = 0
  /\ map_frames' = <<>>
  /\ img' = NoImage
  /\ proc' = NoProcess
  /\ pc' = "gv_forecast"
  /\ UNCHANGED <<mode, icon, icon_name, city_key, forecast, nearby, cache, http, clock, temp_files, concat, last>>
  /\ UNCHANGED main_vars

\* lines 321-323: compose the forecast frame and save it (the save may fail)
GVForecastFrame ==
  /\ pc = "gv_forecast"
  /\ \/ /\ img' = generate_forecast_frame(forecast)
        /\ SaveFile("forecast.png")
        /\ pc' = "gv_map"
        /\ UNCHANGED <<i, map_frames, last>>
     \/ /\ GVRaise(OSError)
        /\ UNCHANGED temp_files
  /\ UNCHANGED <<mode, icon, icon_name, city_key, forecast, nearby, cache, http, clock, temp_exists, concat, proc>>
  /\ UNCHANGED main_vars

\* lines 327-331: one turn of the loop over range(10) (the save may fail)
GVMapFrame ==
  /\ pc = "gv_map" /\ i < MapFrameCount
  /\ \/ /\ img' = generate_map_frame(city_key, nearby, i)
        /\ SaveFile(MapName(i))
        /\ map_frames' = Append(map_frames, MapName(i))
        /\ i' = i + 1
        /\ pc' = "gv_map"
        /\ UNCHANGED last
     \/ /\ GVRaise(OSError)
        /\ UNCHANGED temp_files
  /\ UNCHANGED <<mode, icon, icon_name, city_key, forecast, nearby, cache, http, clock, temp_exists, concat, proc>>
  /\ UNCHANGED main_vars

\* lines 338-348: write the edit list (opening the file may fail)
GVWriteConcat ==
  /\ pc = "gv_map" /\ i >= MapFrameCount
  /\ \/ /\ concat' = [concat EXCEPT ![city_key] = ConcatLines(temp_dir(city_key), map_frames)]
        /\ SaveFile("concat.txt")
        /\ pc' = "gv_encode"
        /\ UNCHANGED <<i, map_frames, img, last>>
     \/ /\ GVRaise(OSError)
        /\ UNCHANGED <<temp_files, concat>>
  /\ UNCHANGED <<mode, icon, icon_name, city_key, forecast, nearby, cache, http, clock, temp_exists, proc>>
  /\ UNCHANGED main_vars

\* lines 351-368: run ffmpeg on the edit list; an exception is re-raised
GVRunEncoder ==
  /\ pc = "gv_encode"
  /\ \E p \in EncoderOutcomes :
       /\ proc' = p
       /\ IF encoder_exception(p) # NoExc
          THEN GVRaise(encoder_exception(p))
          ELSE /\ pc' = "gv_cleanup"
               /\ UNCHANGED <<i, map_frames, img, last>>
  /\ UNCHANGED <<mode, icon, icon_name, city_key, forecast, nearby, cache, http, clock>>
  /\ UNCHANGED fs_vars /\ UNCHANGED main_vars

\* lines 370-374: shutil.rmtree(temp_dir) and return output_path
GVCleanup ==
  /\ pc = "gv_cleanup"
  /\ temp_exists' = [temp_exists EXCEPT ![city_key] = FALSE]
  /\ temp_files' = [temp_files EXCEPT ![city_key] = {}]
  /\ concat' = [concat EXCEPT ![city_key] = <<>>]
  /\ last' = CallReturned("generate_video", output_name(city_key))
  /\ pc' = "gv_return"
  /\ i' = 0
  /\ map_frames' = <<>>
  /\ img' = NoImage
  /\ UNCHANGED <<mode, icon, icon_name, city_key, forecast, nearby, cache, http, clock, proc>>
  /\ UNCHANGED main_vars

(***************************************************************************)
(* Direct callers of the renderer                                          *)
(***************************************************************************)
CallForecastFrame ==
  /\ mode = "calls" /\ pc = "idle"
  /\ \E f \in ForecastInputs :
       /\ forecast' = f
       /\ img' = generate_forecast_frame(f)
  /\ city_key' = ""
  /\ nearby' = <<>>
  /\ i' = 0
  /\ http' = <<>>
  /\ UNCHANGED clock
  /\ last' = CallReturned("generate_forecast_frame", "")
  /\ icon' = NoIconCall
  /\ icon_name' = NoIconName
  /\ UNCHANGED <<mode, pc, cache, map_frames, proc>>
  /\ UNCHANGED main_vars /\ UNCHANGED fs_vars

\* draw_weather_icon called on an empty surface
CallDrawIcon ==
  /\ mode = "calls" /\ pc = "idle"
  /\ \E c \in CenterInputs, t \in IconInputs :
       /\ icon' = [cx |-> c[1], cy |-> c[2], icon_type |-> t]
       /\ img' = IconImage(c[1], c[2], t)
  /\ city_key' = ""
  /\ forecast' = NoForecast
  /\ nearby' = <<>>
  /\ i' = 0
  /\ http' = <<>>
  /\ icon_name' = NoIconName
  /\ last' = CallReturned("draw_weather_icon", "")
  /\ UNCHANGED <<mode, pc, cache, clock, map_frames, proc>>
  /\ UNCHANGED main_vars /\ UNCHANGED fs_vars

\* get_icon_name called with a condition string
CallGetIconName ==
  /\ mode = "calls" /\ pc = "idle"
  /\ \E c \in ConditionInputs :
       icon_name' = [condition |-> c, result |-> get_icon_name(c)]
  /\ icon' = NoIconCall
  /\ img' = NoImage
  /\ city_key' = ""
  /\ forecast' = NoForecast
  /\ nearby' = <<>>
  /\ i' = 0
  /\ http' = <<>>
  /\ last' = CallReturned("get_icon_name", "")
  /\ UNCHANGED <<mode, pc, cache, clock, map_frames, proc>>
  /\ UNCHANGED main_vars /\ UNCHANGED fs_vars

CallMapFrame ==
  /\ mode = "calls" /\ pc = "idle"
  /\ \E k \in CitySet, nb \in NearbyInputs, n \in 0..MaxFrameNum :
       /\ city_key' = k
       /\ nearby' = nb
       /\ i' = n
       /\ img' = generate_map_frame(k, nb, n)
  /\ forecast' = NoForecast
  /\ http' = <<>>
  /\ UNCHANGED clock
  /\ last' = CallReturned("generate_map_frame", "")
  /\ icon' = NoIconCall
  /\ icon_name' = NoIconName
  /\ UNCHANGED <<mode, pc, cache, map_frames, proc>>
  /\ UNCHANGED main_vars /\ UNCHANGED fs_vars

CallGenerateVideo ==
  /\ mode = "video" /\ pc = "idle"
  /\ \E k \in CitySet, f \in VideoForecastInputs, nb \in VideoNearbyInputs :
       /\ city_key' = k
       /\ forecast' = f
       /\ nearby' = nb
  /\ pc' = "gv_start"
  /\ UNCHANGED <<mode, icon, icon_name, cache, http, clock, last>>
  /\ UNCHANGED main_vars /\ UNCHANGED fs_vars /\ UNCHANGED gv_locals

\* generate_video came back to its direct caller
CallAfterVideo ==
  /\ mode = "video" /\ pc = "gv_return"
  /\ pc' = "idle"
  /\ UNCHANGED <<mode, icon, icon_name, city_key, forecast, nearby, cache, http, clock, last>>
  /\ UNCHANGED main_vars /\ UNCHANGED fs_vars /\ UNCHANGED gv_locals

(***************************************************************************)
(* Direct callers of the provider                                          *)
(***************************************************************************)
ApiFetchForecast ==
  /\ mode = "api" /\ pc = "idle"
  /\ \E k \in CitySet, resp \in ForecastResponses, now \in Dates :
       \E out \in fetch_forecast(k, resp, now, cache[k]) :
         /\ city_key' = k
         /\ cache' = [cache EXCEPT ![k] = out.file]
         /\ http' = <<resp>>
         /\ clock' = now
         /\ forecast' = out.value
         /\ last' = IF out.raised THEN CallRaised("fetch_forecast", Exc(out.exc))
                    ELSE CallReturned("fetch_forecast", "")
  /\ UNCHANGED <<mode, icon, icon_name, pc, nearby>>
  /\ UNCHANGED main_vars /\ UNCHANGED fs_vars /\ UNCHANGED gv_locals

CallFetchNearby ==
  /\ mode = "calls" /\ pc = "idle"
  /\ \E k \in CitySet :
       \E lookups \in [1..Len(CITIES[k].nearby) -> LookupOutcomes] :
         /\ city_key' = k
         /\ nearby' = fetch_nearby_weather(k, lookups)
         /\ http' = lookups
         /\ UNCHANGED clock
       /\ UNCHANGED clock
  /\ forecast' = NoForecast
  /\ i' = 0
  /\ img' = NoImage
  /\ last' = CallReturned("fetch_nearby_weather", "")
  /\ icon' = NoIconCall
  /\ icon_name' = NoIconName
  /\ UNCHANGED <<mode, pc, cache, map_frames, proc>>
  /\ UNCHANGED main_vars /\ UNCHANGED fs_vars

(***************************************************************************)
(* Specifications                                                          *)
(***************************************************************************)
Next ==
  \/ MainNextCity \/ MainFetchForecast \/ MainFetchNearby \/ MainAfterVideo
  \/ MainFinish
  \/ GVStart \/ GVForecastFrame \/ GVMapFrame \/ GVWriteConcat \/ GVRunEncoder
  \/ GVCleanup

NextCalls ==
  \/ CallForecastFrame \/ CallMapFrame \/ CallFetchNearby \/ CallDrawIcon
  \/ CallGetIconName

NextVideo ==
  \/ CallGenerateVideo \/ CallAfterVideo
  \/ GVStart \/ GVForecastFrame \/ GVMapFrame \/ GVWriteConcat \/ GVRunEncoder
  \/ GVCleanup

NextApi == ApiFetchForecast

Spec == Init /\ [][Next]_vars
SpecCalls == InitCalls /\ [][NextCalls]_vars
SpecVideo == InitVideo /\ [][NextVideo]_vars
SpecApi == InitApi /\ [][NextApi]_vars

(***************************************************************************)
(* Properties                                                              *)
(***************************************************************************)
Range(seq) == {seq[j] : j \in 1..Len(seq)}

\* C1: whenever generate_video ends, by returning or by raising, the
\* temporary directory temp_<city_key> it created no longer exists and
\* holds no frame image or edit list.
C1_TempDirGoneAtEnd ==
  pc = "gv_return" => (~temp_exists[city_key] /\ temp_files[city_key] = {})

\* C2: when the encoder process exited non-zero, generate_video returns no
\* path and raises an error carrying the stderr text of that process; it
\* returns the output path only when the encoder exited zero.
C2_EncoderFailureRaised ==
  (pc = "gv_return" /\ last.fn = "generate_video") =>
    /\ (proc.started /\ proc.returncode # 0) =>
         /\ last.raised
         /\ last.path = ""
         /\ last.exc.type = "CalledProcessError"
         /\ last.exc.stderr = proc.stderr
    /\ ~last.raised =>
         /\ proc.started /\ proc.returncode = 0
         /\ last.path = output_name(city_key)

C2_Witness ==
  /\ pc = "gv_return"
  /\ proc.started /\ proc.returncode # 0
  /\ last.raised
  /\ last.exc.stderr = "No space left on device"

\* C3: the cities are processed one after another in list order, and a
\* failure in one city's pipeline does not keep the remaining cities from
\* being attempted: when the run ends every city was attempted exactly once.
C3_EveryCityAttemptedInOrder ==
  /\ mode = "main" =>
       /\ Len(processed) <= Len(CityKeys)
       /\ processed = SubSeq(CityKeys, 1, Len(processed))
       /\ pc \notin {"loop", "exit"} =>
            (Len(processed) = ci /\ city_key = CityKeys[ci])
       /\ pc = "loop" => Len(processed) = ci - 1
  /\ pc = "exit" => processed = CityKeys

\* the run ended, the first city's pipeline failed, the second city produced its video
C3_Witness ==
  /\ pc = "exit"
  /\ processed = CityKeys
  /\ generated = <<output_name(CityKeys[2])>>

\* C4: the run reports success (exit code 0) exactly when generate_video
\* returned an output path for every city of the list, and failure (exit
\* code 1) when at least one city's pipeline failed.
C4_SuccessIffAllGenerated ==
  /\ (mode = "main" /\ pc = "loop" /\ ci > 1 /\ last.fn = "generate_video") =>
       (output_name(CityKeys[ci - 1]) \in Range(generated) <=> ~last.raised)
  /\ (mode = "main" /\ pc = "loop" /\ ci > 1 /\ last.fn # "generate_video") =>
       output_name(CityKeys[ci - 1]) \notin Range(generated)
  /\ pc = "exit" =>
       /\ exit_code \in {0, 1}
       /\ exit_code = 0 <=> \A k \in CitySet : output_name(k) \in Range(generated)

C4_Witness ==
  /\ pc = "exit"
  /\ exit_code = 1
  /\ generated = <<output_name(CityKeys[1])>>

\* a Forecast as the renderer needs it: every field present, at most three
\* days, every day's icon one of the five kinds
ValidForecast(f) ==
  /\ DOMAIN f = {"city", "region", "units", "unit_symbol", "timestamp", "forecasts"}
  /\ f.city # "" /\ f.unit_symbol # ""
  /\ Len(f.forecasts) <= 3
  /\ \A j \in 1..Len(f.forecasts) :
       /\ DOMAIN f.forecasts[j] =
            {"day_name", "high", "low", "condition", "icon", "description"}
       /\ f.forecasts[j].icon \in IconKinds

\* C5: fetch_forecast never raises for a supported city key, whatever the
\* HTTP outcome, the cache file and the date, and always returns a valid
\* Forecast.
C5_FetchForecastNeverRaises ==
  last.fn = "fetch_forecast" => (~last.raised /\ ValidForecast(forecast))

\* C6: fetch_nearby_weather never raises and returns one entry per
\* configured nearby city, in configuration order and under that city's
\* name; the entry of a failed lookup has the default temperature of the
\* city's units and the icon "clouds".
C6_NearbyOnePerConfigured ==
  last.fn = "fetch_nearby_weather" =>
    LET conf == CITIES[city_key] IN
    /\ ~last.raised
    /\ Len(nearby) = Len(conf.nearby)
    /\ \A j \in 1..Len(conf.nearby) :
         /\ nearby[j].name = conf.nearby[j]
         /\ ~http[j].ok =>
              /\ nearby[j].temp = (IF conf.units = "imperial" THEN 70 ELSE 21)
              /\ nearby[j].icon = "clouds"

\* a call where the first lookup succeeded and the second and last failed
C6_Witness ==
  /\ last.fn = "fetch_nearby_weather"
  /\ city_key = "london"
  /\ Len(nearby) = 4
  /\ http[1].ok /\ ~http[2].ok /\ ~http[4].ok
  /\ nearby[2].temp = 21


\* the entry at 0-based index idx is drawn in the highlight colour on img
DrawnHighlighted(idx) ==
  \E k \in 1..Len(img.drawn) :
    img.drawn[k].idx = idx /\ img.drawn[k].color = "text_yellow"

\* the entry at 0-based index idx is drawn on img
Drawn(idx) == \E k \in 1..Len(img.drawn) : img.drawn[k].idx = idx

InTable(idx) == nearby[idx + 1].name \in DOMAIN positions(city_key)

\* C7 as stated: in a map frame of a nearby list of length M and frame
\* index f, entry i is drawn highlighted exactly when i = (f mod (M+1)) - 1.
C7_HighlightExactlyWhenTurn ==
  (mode = "calls" /\ img.kind = "map") =>
    \A idx \in 0..(Len(nearby) - 1) :
      DrawnHighlighted(idx) <=> idx = (i % (Len(nearby) + 1)) - 1

\* C7 amended: entry i is drawn highlighted exactly when its name is in the
\* position table and i = (f mod (M+1)) - 1; no entry is highlighted when
\* f mod (M+1) = 0 and at most one entry is highlighted in a frame.
C7_HighlightWhenTurnAndInTable ==
  (mode = "calls" /\ img.kind = "map") =>
    /\ \A idx \in 0..(Len(nearby) - 1) :
         DrawnHighlighted(idx) <=>
           (InTable(idx) /\ idx = (i % (Len(nearby) + 1)) - 1)
    /\ i % (Len(nearby) + 1) = 0 =>
         \A idx \in 0..(Len(nearby) - 1) : ~DrawnHighlighted(idx)
    /\ Cardinality({idx \in 0..(Len(nearby) - 1) : DrawnHighlighted(idx)}) <= 1
    /\ Cardinality({k \in 1..Len(img.drawn) : img.drawn[k].color = "text_yellow"}) <= 1

\* a frame past the first period: the last entry of a list of known names
\* is the highlighted one
C7_Witness ==
  /\ mode = "calls" /\ img.kind = "map"
  /\ Len(nearby) = 2
  /\ i = 5
  /\ DrawnHighlighted(1) /\ Drawn(0) /\ ~DrawnHighlighted(0)

RECURSIVE DurationSum(_, _)
DurationSum(lines, n) ==
  IF n = 0 THEN 0
  ELSE DurationSum(lines, n - 1)
       + (IF lines[n].kw = "duration" THEN lines[n].secs ELSE 0)

\* C8: the edit list written by generate_video is the forecast frame with
\* duration 10, then the map frames 0 to 9 in ascending order with duration
\* 1 each, then the last map frame once more without a duration; the
\* durations add up to 20 seconds.
C8_RenderPlan ==
  \A k \in CitySet :
    ("concat.txt" \in temp_files[k]) =>
      LET lines == concat[k] IN
      /\ Len(lines) = 23
      /\ lines[1].kw = "file" /\ lines[1].path = <<temp_dir(k), "forecast.png">>
      /\ lines[2].kw = "duration" /\ lines[2].secs = 10
      /\ \A n \in 0..9 :
           /\ lines[3 + 2 * n].kw = "file"
           /\ lines[3 + 2 * n].path = <<temp_dir(k), MapNames[n + 1]>>
           /\ lines[4 + 2 * n].kw = "duration"
           /\ lines[4 + 2 * n].secs = 1
      /\ lines[23].kw = "file" /\ lines[23].path = <<temp_dir(k), "map_009.png">>
      /\ DurationSum(lines, Len(lines)) = 20

\* the edit list of a run whose nearby list is empty
C8_Witness ==
  /\ pc = "gv_encode"
  /\ nearby = <<>>
  /\ "concat.txt" \in temp_files[city_key]
  /\ Len(concat[city_key]) = 23

Min(a, b) == IF a < b THEN a ELSE b

\* C9: for a Forecast of K days the forecast frame shows min(K, 3) cards,
\* the first min(K, 3) days in their order, the i-th (0-based) at
\* x = 30 + 200 * i, y = 70.
C9_CardsForFirstThreeDays ==
  (mode = "calls" /\ img.kind = "forecast") =>
    /\ ~last.raised
    /\ Len(img.cards) = Min(Len(forecast.forecasts), 3)
    /\ \A j \in 1..Len(img.cards) :
         /\ img.cards[j].x = 30 + 200 * (j - 1)
         /\ img.cards[j].y = 70
         /\ img.cards[j].day_name = forecast.forecasts[j].day_name
         /\ img.cards[j].icon = forecast.forecasts[j].icon
         /\ img.cards[j].high = forecast.forecasts[j].high
         /\ img.cards[j].low = forecast.forecasts[j].low
         /\ img.cards[j].description = forecast.forecasts[j].description

\* a forecast of more than three days was composed into three cards
C9_Witness ==
  /\ mode = "calls" /\ img.kind = "forecast"
  /\ Len(forecast.forecasts) > 3
  /\ Len(img.cards) = 3
  /\ img.cards[3].x = 430

\* C10: a nearby entry whose name is not in the position table of the
\* region is skipped without error and nothing is drawn for it; every entry
\* whose name is in the table is drawn, once, at its table position.
C10_UnknownNameSkipped ==
  (mode = "calls" /\ img.kind = "map") =>
    /\ ~last.raised
    /\ \A idx \in 0..(Len(nearby) - 1) :
         /\ ~InTable(idx) => ~Drawn(idx)
         /\ InTable(idx) =>
              /\ Cardinality({k \in 1..Len(img.drawn) : img.drawn[k].idx = idx}) = 1
              /\ \A k \in 1..Len(img.drawn) :
                   img.drawn[k].idx = idx =>
                     /\ img.drawn[k].name = nearby[idx + 1].name
                     /\ <<img.drawn[k].x, img.drawn[k].y>> =
                          positions(city_key)[nearby[idx + 1].name]
                     /\ img.drawn[k].icon = nearby[idx + 1].icon
                     /\ img.drawn[k].temp = nearby[idx + 1].temp
    /\ \A k \in 1..Len(img.drawn) : img.drawn[k].idx \in 0..(Len(nearby) - 1)

\* a frame where an unknown name comes before a known one, which is drawn
C10_Witness ==
  /\ mode = "calls" /\ img.kind = "map"
  /\ Len(nearby) = 2
  /\ nearby[1].name = "Unknown City"
  /\ InTable(1)
  /\ Len(img.drawn) = 1
  /\ img.drawn[1].name = nearby[2].name


\* C11: draw_weather_icon called with an icon kind outside the five kinds
\* draws what it draws for "clouds" at the same centre point (the three
\* grey ellipses), and raises no error.
C11_UnknownKindDrawsClouds ==
  (last.fn = "draw_weather_icon" /\ icon.icon_type \notin IconKinds) =>
    /\ ~last.raised
    /\ img.drawn =
         <<Ellipse(icon.cx - 35, icon.cy - 10, icon.cx - 5, icon.cy + 20, "#9e9e9e"),
           Ellipse(icon.cx - 20, icon.cy - 20, icon.cx + 20, icon.cy + 15, "#bdbdbd"),
           Ellipse(icon.cx, icon.cy - 10, icon.cx + 35, icon.cy + 20, "#9e9e9e")>>


\* C12: get_icon_name returns the documented icon for every condition of
\* the known mapping and "clouds" for every other string, so its result is
\* always one of the five icon kinds.
C12_IconForCondition ==
  last.fn = "get_icon_name" =>
    LET c == icon_name.condition
        r == icon_name.result
    IN  /\ ~last.raised
        /\ r \in {"sun", "clouds", "rain", "thunderstorm", "snow"}
        /\ c = "Clear" => r = "sun"
        /\ c \in {"Clouds", "Mist", "Fog", "Haze"} => r = "clouds"
        /\ c \in {"Rain", "Drizzle"} => r = "rain"
        /\ c = "Thunderstorm" => r = "thunderstorm"
        /\ c = "Snow" => r = "snow"
        /\ c \notin {"Clear", "Clouds", "Mist", "Fog", "Haze", "Rain", "Drizzle",
                     "Thunderstorm", "Snow"} => r = "clouds"

\* a call with a string that is no key of the mapping
C12_Witness ==
  /\ last.fn = "get_icon_name"
  /\ icon_name.condition = "Tornado"
  /\ icon_name.result = "clouds"

\* C13: two different city keys never use the same temporary directory,
\* and when a run of generate_video starts, the temporary directory it
\* uses holds no file left behind by an earlier run.
C13_TempDirPrivatePerRun ==
  /\ \A k1 \in CitySet, k2 \in CitySet : k1 # k2 => temp_dir(k1) # temp_dir(k2)
  /\ pc = "gv_start" => temp_files[city_key] = {}


====
